---- MODULE Spec2Model ----
(***************************************************************************)
(* Model of trunk_check.py: a single run of main(), i.e. the container     *)
(* check, the RTL-SDR enumeration check and the e-mail notification.       *)
(* Text is modelled as a sequence of one-character strings so that         *)
(* str.strip, str.split and the device regular expression are computed    *)
(* character by character, as Python computes them.                        *)
(***************************************************************************)
EXTENDS Integers, Sequences, FiniteSets, TLC

\* ---------------------------------------------------------------- bounds
MaxLines == 2       \* lines of rtl_test output drawn per run
MaxExpected == 2    \* length of EXPECTED_SERIALS
MaxListing == 2     \* lines of `docker ps` output drawn per run

\* ------------------------------------------------------------ characters
Whitespace == {" ", "\n"}
Digits == {"0", "1"}
Alphabet == {" ", "\n", "0", "1", ":", "S", "N", "A", "B", "C", "r", "t", "F", "l", "e"}
NonWhitespace == Alphabet \ Whitespace
NonNewline == Alphabet \ {"\n"}

SetMax(S) == CHOOSE x \in S : \A y \in S : y <= x

\* index of the first character at or after p that is not in class C
RECURSIVE SpanEnd(_, _, _)
SpanEnd(s, p, C) ==
    IF p <= Len(s) /\ s[p] \in C THEN SpanEnd(s, p + 1, C) ELSE p

RECURSIVE Join(_)
\* every line is followed by its newline, as a command prints them
Join(lines) ==
    IF lines = <<>> THEN <<>>
    ELSE Head(lines) \o <<"\n">> \o Join(Tail(lines))

SeqsUpTo(S, n) == UNION { [1..k -> S] : k \in 0..n }

\* ----------------------------------------------------------- str methods
RECURSIVE lstrip(_)
lstrip(s) ==
    IF s # <<>> /\ Head(s) \in Whitespace THEN lstrip(Tail(s)) ELSE s

RECURSIVE rstrip(_)
rstrip(s) ==
    IF s # <<>> /\ s[Len(s)] \in Whitespace
    THEN rstrip(SubSeq(s, 1, Len(s) - 1)) ELSE s

strip(s) == rstrip(lstrip(s))

RECURSIVE split(_, _)
\* str.split(sep) for a one-character separator: never returns an empty list
split(s, sep) ==
    LET hits == { i \in 1..Len(s) : s[i] = sep }
    IN  IF hits = {} THEN << s >>
        ELSE LET i == CHOOSE k \in hits : \A j \in hits : k <= j
             IN  << SubSeq(s, 1, i - 1) >> \o split(SubSeq(s, i + 1, Len(s)), sep)

InList(x, list) == \E i \in 1..Len(list) : list[i] = x

\* `needle in haystack` for two strings
Contains(haystack, needle) ==
    \E i \in 1..(Len(haystack) - Len(needle) + 1) :
        SubSeq(haystack, i, i + Len(needle) - 1) = needle

\* ------------------------------------------------------------- config
ContainerNames == { <<"t">>, <<"t", "r">> }
Serials == { <<"A">>, <<"B">>, <<"C">> }

\* --------------------------------------------------- values and results
None == [kind |-> "None", text |-> <<>>]
Text(s) == [kind |-> "str", text |-> s]
Diagnostic(e) ==
    [kind |-> "diagnostic",
     text |-> <<"Error checking container status: ", e.returncode, "\nStdout: ">>
              \o e.stdout \o <<"\nStderr: ">> \o e.stderr]

\* -------------------------------------------- 1. check_docker_container
ListingLines == { <<"t">>, <<"t", "r">>, <<" ", "t">>, <<"t", " ">>, <<>> }

\* outcomes of subprocess.run(["docker", "ps", ...], check=True)
PsOutcomes ==
    { [kind |-> "ok", returncode |-> "0", stdout |-> Join(ls), stderr |-> <<>>] :
          ls \in SeqsUpTo(ListingLines, MaxListing) }
    \cup { [kind |-> "nonzero", returncode |-> "1", stdout |-> <<>>, stderr |-> <<"e">>] }
    \cup { [kind |-> "notfound", returncode |-> "", stdout |-> <<>>, stderr |-> <<>>] }

\* the listings drawn when the whole of main is run
MainPsOutcomes ==
    { [kind |-> "ok", returncode |-> "0", stdout |-> Join(ls), stderr |-> <<>>] :
          ls \in { <<>>, << <<"t">> >>, << <<"t", "r">> >> } }
    \cup { p \in PsOutcomes : p.kind # "ok" }

\* outcomes of subprocess.run(["docker", "logs", name])
LogsOutcomes ==
    { [stdout |-> o, stderr |-> e] : o \in { <<>>, <<"l">> }, e \in { <<>>, <<"e">> } }

check_docker_container_substring(container_name, ps, lg) ==
    IF ps.kind = "notfound"
    THEN [raised |-> "FileNotFoundError", running |-> FALSE, logs |-> None,
          calls |-> <<"docker ps">>]
    ELSE IF ps.kind = "nonzero"
    THEN [raised |-> "none", running |-> FALSE, logs |-> Diagnostic(ps),
          calls |-> <<"docker ps">>]
    ELSE IF Contains(ps.stdout, container_name)
         THEN [raised |-> "none", running |-> TRUE, logs |-> None,
               calls |-> <<"docker ps">>]
         ELSE [raised |-> "none", running |-> FALSE,
               logs |-> Text(lg.stdout \o lg.stderr),
               calls |-> <<"docker ps", "docker logs">>]

check_docker_container(container_name, ps, lg) ==
    IF ps.kind = "notfound"
    THEN \* FileNotFoundError is not a CalledProcessError: not caught
         [raised |-> "FileNotFoundError", running |-> FALSE, logs |-> None,
          calls |-> <<"docker ps">>]
    ELSE IF ps.kind = "nonzero"
    THEN \* check=True raises CalledProcessError, caught at line 63
         [raised |-> "none", running |-> FALSE, logs |-> Diagnostic(ps),
          calls |-> <<"docker ps">>]
    ELSE LET running_containers == split(strip(ps.stdout), "\n")
         IN  IF InList(container_name, running_containers)
             THEN [raised |-> "none", running |-> TRUE, logs |-> None,
                   calls |-> <<"docker ps">>]
             ELSE [raised |-> "none", running |-> FALSE,
                   logs |-> Text(lg.stdout \o lg.stderr),
                   calls |-> <<"docker ps", "docker logs">>]

\* ------------------------------------------------- 2. check_rtl_dongles
\* re.compile(r'^\s*(\d+):\s.*SN:\s*(\S+)', re.MULTILINE)
NoMatch == [ok |-> FALSE, end |-> 0, idx_str |-> <<>>, sn |-> <<>>]

\* '^' under re.MULTILINE
AtLineStart(s, p) == p = 1 \/ s[p - 1] = "\n"

HasSN(s, j) == j + 2 <= Len(s) /\ s[j] = "S" /\ s[j + 1] = "N" /\ s[j + 2] = ":"

\* device_pattern.match anchored at position p; greedy with backtracking:
\* \s*, \d+ and the second \s* can only succeed on their whole run, and
\* .* takes the longest stretch of the line after which the rest matches
MatchAt(s, p) ==
    LET a == SpanEnd(s, p, Whitespace)
        b == SpanEnd(s, a, Digits)
    IN  IF ~AtLineStart(s, p) \/ b = a \/ b + 1 > Len(s)
           \/ s[b] # ":" \/ s[b + 1] \notin Whitespace
        THEN NoMatch
        ELSE LET q == b + 2
                 lineEnd == SpanEnd(s, q, NonNewline)
                 cands == { j \in q..lineEnd :
                              HasSN(s, j) /\ SpanEnd(s, j + 3, Whitespace) <= Len(s) }
             IN  IF cands = {} THEN NoMatch
                 ELSE LET j == SetMax(cands)
                          t == SpanEnd(s, j + 3, Whitespace)
                          e == SpanEnd(s, t, NonWhitespace)
                      IN  [ok |-> TRUE, end |-> e,
                           idx_str |-> SubSeq(s, a, b - 1), sn |-> SubSeq(s, t, e - 1)]

RECURSIVE finditer(_, _)
\* leftmost match at or after pos, then resume at the end of that match
finditer(s, pos) ==
    IF pos > Len(s) THEN <<>>
    ELSE LET m == MatchAt(s, pos)
         IN  IF m.ok THEN << m >> \o finditer(s, m.end)
             ELSE finditer(s, pos + 1)

found_serials_of(output) ==
    LET ms == finditer(output, 1) IN { ms[i].sn : i \in 1..Len(ms) }

\* the only assignments to failed_devices are inside the commented-out block
failed_devices_bound == FALSE
failed_devices == <<>>

RtlLine ==
    [dev0A |-> <<"0", ":", " ", "r", " ", "S", "N", ":", " ", "A">>,
     dev1B |-> <<" ", "1", ":", " ", "r", " ", "S", "N", ":", " ", "B">>,
     found |-> <<"F", " ", "1", ":">>,
     blank |-> <<>>,
     nosn  |-> <<"0", ":", " ", "r", " ", "S", "N", ":">>,
     noidx |-> <<"S", "N", ":", " ", "C">>,
     idx   |-> <<"0", ":">>]
WellFormedIds == {"dev0A", "dev1B"}
NoiseIds == {"found", "blank", "nosn", "noidx", "idx"}
RtlLineIds == WellFormedIds \cup NoiseIds
Token == [dev0A |-> <<"A">>, dev1B |-> <<"B">>]

RtlText(ids) == Join([i \in 1..Len(ids) |-> RtlLine[ids[i]]])

\* outcomes of subprocess.run(["rtl_test"]) (no check=True, so the exit status
\* is ignored): the first k lines go to stdout, the rest to stderr; or the
\* command is not installed
RtlOutcomes ==
    UNION { { [kind |-> "ran", lines |-> ls,
               stdout |-> RtlText(SubSeq(ls, 1, k)),
               stderr |-> RtlText(SubSeq(ls, k + 1, Len(ls)))] : k \in 0..Len(ls) } :
            ls \in SeqsUpTo(RtlLineIds, MaxLines) }
    \cup { [kind |-> "notfound", lines |-> <<>>, stdout |-> <<>>, stderr |-> <<>>] }

RtlReturn(af, missing, failed, found) ==
    [raised |-> "none", all_found |-> af, missing_serials |-> missing,
     failed_devices |-> failed, found_serials |-> found, local_missing |-> missing]
RtlRaise(e, found, missing) ==
    [raised |-> e, all_found |-> FALSE, missing_serials |-> <<>>,
     failed_devices |-> <<>>, found_serials |-> found, local_missing |-> missing]

check_rtl_dongles(expected_serials, proc) ==
    IF proc.kind = "notfound" THEN RtlRaise("FileNotFoundError", {}, <<>>)
    ELSE
    LET output == proc.stdout \o proc.stderr
        found_serials == found_serials_of(output)
    IN  IF expected_serials = <<>>
        THEN IF found_serials # {}
             THEN \* `not failed_devices` is evaluated
                  IF ~failed_devices_bound THEN RtlRaise("NameError", found_serials, <<>>)
                  ELSE IF failed_devices = <<>>
                       THEN RtlReturn(TRUE, <<>>, failed_devices, found_serials)
                       ELSE RtlReturn(FALSE, <<>>, failed_devices, found_serials)
             ELSE \* short-circuit, then the tuple (False, [], failed_devices) is built
                  IF ~failed_devices_bound THEN RtlRaise("NameError", found_serials, <<>>)
                  ELSE RtlReturn(FALSE, <<>>, failed_devices, found_serials)
        ELSE LET Missing(s) == s \notin found_serials
                 missing_serials == SelectSeq(expected_serials, Missing)
             IN  IF ~failed_devices_bound
                 THEN RtlRaise("NameError", found_serials, missing_serials)
                 ELSE LET failed_serial_list ==
                              [i \in 1..Len(failed_devices) |-> failed_devices[i][1]]
                          Failed(s) == InList(s, failed_serial_list)
                          inter == { expected_serials[i] : i \in 1..Len(expected_serials) }
                                      \cap { failed_serial_list[i] : i \in 1..Len(failed_serial_list) }
                          all_found == (Len(missing_serials) + Cardinality(inter) = 0)
                      IN  RtlReturn(all_found, missing_serials, failed_devices, found_serials)

\* ------------------------------------------------------------ send_email
SmtpOutcomes == {"ok", "connect_failed", "starttls_failed", "login_failed", "send_failed"}

\* what the body of the `with smtplib.SMTP(...)` block raises
SmtpRaises(outcome) ==
    CASE outcome = "ok" -> "none"
      [] outcome = "connect_failed" -> "OSError"
      [] outcome = "starttls_failed" -> "SMTPNotSupportedError"
      [] outcome = "login_failed" -> "SMTPAuthenticationError"
      [] outcome = "send_failed" -> "SMTPRecipientsRefused"

\* classes derived from Exception
ExceptionClasses ==
    {"OSError", "SMTPNotSupportedError", "SMTPAuthenticationError", "SMTPRecipientsRefused"}
\* classes derived from smtplib.SMTPException
SMTPExceptionClasses ==
    {"SMTPNotSupportedError", "SMTPAuthenticationError", "SMTPRecipientsRefused"}

send_email_smtp_only(outcome) ==
    LET e == SmtpRaises(outcome)
    IN  IF e = "none" \/ e \in SMTPExceptionClasses THEN "none" ELSE e

\* the exception that leaves send_email ("none": it returns)
send_email(outcome) ==
    LET e == SmtpRaises(outcome)
    IN  IF e = "none" \/ e \in ExceptionClasses THEN "none" ELSE e

\* ------------------------------------------------------------------ main
VARIABLES pc, CONTAINER_NAME, EXPECTED_SERIALS, ps, docker_logs, container, rtl_proc, rtl,
          smtp, calls, recovery, exit_status, uncaught

vars == <<pc, CONTAINER_NAME, EXPECTED_SERIALS, ps, docker_logs, container, rtl_proc, rtl,
          smtp, calls, recovery, exit_status, uncaught>>

Init ==
    /\ pc = "START"
    /\ CONTAINER_NAME \in ContainerNames
    /\ EXPECTED_SERIALS \in SeqsUpTo(Serials, MaxExpected)
    /\ ps = [kind |-> "unset", returncode |-> "", stdout |-> <<>>, stderr |-> <<>>]
    /\ docker_logs = [stdout |-> <<>>, stderr |-> <<>>]
    /\ container = [raised |-> "unset", running |-> FALSE, logs |-> None, calls |-> <<>>]
    /\ rtl_proc = [kind |-> "unset", lines |-> <<>>, stdout |-> <<>>, stderr |-> <<>>]
    /\ rtl = RtlRaise("unset", {}, <<>>)
    /\ smtp = "not_attempted"
    /\ calls = <<>>
    /\ recovery = <<>>
    /\ exit_status = -1
    /\ uncaught = "none"

\* container_running, logs = check_docker_container(CONTAINER_NAME), the
\* listing command answering with one of the outcomes P
CheckContainerWith(P) ==
    /\ pc = "START"
    /\ \E p \in P, lg \in LogsOutcomes :
         LET r == check_docker_container(CONTAINER_NAME, p, lg)
         IN  /\ ps' = p
             /\ docker_logs' = IF InList("docker logs", r.calls) THEN lg ELSE docker_logs
             /\ container' = r
             /\ calls' = calls \o r.calls
             /\ IF r.raised # "none"
                THEN pc' = "CRASHED" /\ uncaught' = r.raised /\ exit_status' = 1
                ELSE pc' = "CONTAINER_CHECKED" /\ UNCHANGED <<uncaught, exit_status>>
    /\ UNCHANGED <<CONTAINER_NAME, EXPECTED_SERIALS, rtl_proc, rtl, smtp, recovery>>

\* line 189 within main
CheckContainer == CheckContainerWith(MainPsOutcomes)

ContainerDown_exit0 ==
    /\ pc = "CONTAINER_CHECKED"
    /\ ~container.running
    /\ \E outcome \in SmtpOutcomes :
         LET e == send_email(outcome)
         IN  /\ smtp' = outcome
             /\ IF e # "none"
                THEN /\ calls' = Append(calls, "send_email")
                     /\ pc' = "CRASHED" /\ uncaught' = e /\ exit_status' = 1
                ELSE /\ calls' = calls \o <<"send_email", "sys.exit">>
                     /\ pc' = "DONE" /\ uncaught' = "none" /\ exit_status' = 0
    /\ UNCHANGED <<CONTAINER_NAME, EXPECTED_SERIALS, ps, docker_logs, container, rtl_proc, rtl, recovery>>

\* lines 190-194: if not container_running: send_email(...); sys.exit(1)
ContainerDown ==
    /\ pc = "CONTAINER_CHECKED"
    /\ ~container.running
    /\ \E outcome \in SmtpOutcomes :
         LET e == send_email(outcome)
         IN  /\ smtp' = outcome
             /\ IF e # "none"
                THEN /\ calls' = Append(calls, "send_email")
                     /\ pc' = "CRASHED" /\ uncaught' = e /\ exit_status' = 1
                ELSE /\ calls' = calls \o <<"send_email", "sys.exit">>
                     /\ pc' = "EXIT_FAILURE" /\ uncaught' = "SystemExit" /\ exit_status' = 1
    /\ UNCHANGED <<CONTAINER_NAME, EXPECTED_SERIALS, ps, docker_logs, container, rtl_proc, rtl, recovery>>

\* lines 197-205: the device check and what main does with its result
CheckDevices ==
    /\ pc = "CONTAINER_CHECKED"
    /\ container.running
    /\ \E proc \in RtlOutcomes :
         LET r == check_rtl_dongles(EXPECTED_SERIALS, proc)
         IN  /\ rtl_proc' = proc
             /\ rtl' = r
             /\ IF r.raised # "none"
                THEN /\ calls' = Append(calls, "rtl_test")
                     /\ pc' = "CRASHED" /\ uncaught' = r.raised /\ exit_status' = 1
                     /\ UNCHANGED <<smtp, recovery>>
                ELSE IF ~r.all_found
                THEN /\ calls' = calls \o <<"rtl_test", "run_dongle_recovery", "send_email">>
                     /\ recovery' = Append(recovery, r.missing_serials)
                     /\ \E outcome \in SmtpOutcomes :
                          LET e == send_email(outcome)
                          IN  /\ smtp' = outcome
                              /\ IF e # "none"
                                 THEN pc' = "CRASHED" /\ uncaught' = e /\ exit_status' = 1
                                 ELSE pc' = "DONE" /\ uncaught' = "none" /\ exit_status' = 0
                ELSE /\ calls' = Append(calls, "rtl_test")
                     /\ pc' = "DONE" /\ uncaught' = "none" /\ exit_status' = 0
                     /\ UNCHANGED <<smtp, recovery>>
    /\ UNCHANGED <<CONTAINER_NAME, EXPECTED_SERIALS, ps, docker_logs, container>>

Next == CheckContainer \/ ContainerDown \/ CheckDevices

Spec == Init /\ [][Next]_vars

Terminated == pc \in {"DONE", "EXIT_FAILURE", "CRASHED"}

\* check_docker_container on its own, over every listing up to MaxListing lines
DockerCheck == CheckContainerWith(PsOutcomes)

SpecDocker == Init /\ [][DockerCheck]_vars

\* ================================================================ claims
AfterContainerCheck(suffix) == calls = container.calls \o suffix

\* C1: the exit status is 0 whenever the container was reported running,
\* whatever the device check finds, and 1 whenever it was reported not running.
CE_C1 ==
    (Terminated /\ container.raised = "none") =>
        /\ container.running => exit_status = 0
        /\ ~container.running => exit_status = 1

\* C2: check_rtl_dongles always completes by returning a CheckResult, never
\* by an error, and the failed_devices component is the empty sequence.
CE_C2 ==
    rtl.raised # "unset" => (rtl.raised = "none" /\ rtl.failed_devices = <<>>)

\* C3: when the container check reports not-running, main makes exactly the
\* notification attempt and then exits with a non-zero status; rtl_test and
\* the recovery hook are never invoked in that run.
Thm_C3 ==
    (container.raised = "none" /\ ~container.running) =>
        /\ ~InList("rtl_test", calls)
        /\ ~InList("run_dongle_recovery", calls)
        /\ recovery = <<>>
        /\ rtl.raised = "unset"
        /\ pc = "CONTAINER_CHECKED" => AfterContainerCheck(<<>>)
        /\ Terminated =>
              /\ AfterContainerCheck(<<"send_email", "sys.exit">>)
              /\ smtp # "not_attempted"
              /\ exit_status # 0 /\ exit_status # -1

Wit_C3 == pc = "EXIT_FAILURE" /\ ~container.running /\ smtp = "ok" /\ exit_status = 1

\* C4: with the container running, all_found = false leads to the recovery
\* hook (called with the missing serials), then the notification, then normal
\* termination with status 0; all_found = true leads to normal termination
\* with neither the hook nor the notifier invoked.
CE_C4 ==
    (Terminated /\ container.raised = "none" /\ container.running) =>
        /\ rtl.raised = "none"
        /\ pc = "DONE" /\ exit_status = 0
        /\ IF rtl.all_found
           THEN AfterContainerCheck(<<"rtl_test">>) /\ recovery = <<>>
                /\ smtp = "not_attempted"
           ELSE AfterContainerCheck(<<"rtl_test", "run_dongle_recovery", "send_email">>)
                /\ recovery = << rtl.missing_serials >>

\* C5: whatever step of send_email fails, nothing propagates out of it and
\* main goes on as after a successful send: sys.exit(1) on the container-down
\* path, normal termination on the devices-missing path.
Thm_C5 ==
    smtp # "not_attempted" =>
        /\ pc # "CRASHED"
        /\ uncaught \notin ExceptionClasses
        /\ ~container.running =>
              /\ pc = "EXIT_FAILURE" /\ uncaught = "SystemExit" /\ exit_status = 1
              /\ AfterContainerCheck(<<"send_email", "sys.exit">>)
        /\ container.running =>
              /\ pc = "DONE" /\ uncaught = "none" /\ exit_status = 0

Wit_C5 == smtp = "connect_failed" /\ pc = "EXIT_FAILURE" /\ exit_status = 1

\* C6: a failing external command (non-zero exit or command not found) is
\* never a program-level error: a failed listing gives (False, diagnostic)
\* without a log fetch, a failed enumeration is parsed as usual, and the only
\* abnormal end of a run is the deliberate exit on container-down.
CE_C6 ==
    /\ pc # "CRASHED"
    /\ ps.kind \in {"nonzero", "notfound"} =>
          /\ container.raised = "none" /\ ~container.running
          /\ container.logs.kind = "diagnostic"
          /\ ~InList("docker logs", container.calls)
    /\ rtl_proc.kind = "notfound" => rtl.raised # "FileNotFoundError"

ExpectedMissing(E, F) == LET Absent(x) == x \notin F IN SelectSeq(E, Absent)

\* C7: for a non-empty expected sequence E and found set F the check returns
\* missing_serials = the elements of E not in F, in E's order with E's
\* duplicates, and all_found = TRUE exactly when that list is empty.
CE_C7 ==
    (rtl_proc.kind = "ran" /\ EXPECTED_SERIALS # <<>>) =>
        /\ rtl.raised = "none"
        /\ rtl.missing_serials = ExpectedMissing(EXPECTED_SERIALS, rtl.found_serials)
        /\ rtl.all_found <=> (rtl.missing_serials = <<>>)

\* C8: for an empty expected sequence the check returns (False, [], []) when
\* no device line matched and (True, [], []) when at least one matched.
CE_C8 ==
    (rtl_proc.kind = "ran" /\ EXPECTED_SERIALS = <<>>) =>
        /\ rtl.raised = "none"
        /\ rtl.missing_serials = <<>> /\ rtl.failed_devices = <<>>
        /\ rtl.all_found <=> (rtl.found_serials # {})

WellFormedIn(ls) == { i \in 1..Len(ls) : ls[i] \in WellFormedIds }
DistinctTokens(ls) ==
    \A i, j \in WellFormedIn(ls) : Token[ls[i]] = Token[ls[j]] => i = j

\* C9: for N well-formed device lines with distinct tokens, interleaved with
\* arbitrary noise lines, the found-serial set is exactly those N tokens.
CE_C9 ==
    (rtl_proc.kind = "ran" /\ DistinctTokens(rtl_proc.lines)) =>
        /\ rtl.found_serials = { Token[rtl_proc.lines[i]] : i \in WellFormedIn(rtl_proc.lines) }
        /\ Cardinality(rtl.found_serials) = Cardinality(WellFormedIn(rtl_proc.lines))

\* n occupies a whole line of text T
IsLineOf(n, T) ==
    /\ \A k \in 1..Len(n) : n[k] # "\n"
    /\ \E i \in 1..(Len(T) - Len(n) + 1) :
          /\ SubSeq(T, i, i + Len(n) - 1) = n
          /\ (i = 1 \/ T[i - 1] = "\n")
          /\ (i + Len(n) = Len(T) + 1 \/ T[i + Len(n)] = "\n")

\* T without its leading and trailing whitespace
Trimmed(T) ==
    LET inked == { i \in 1..Len(T) : T[i] \notin Whitespace }
    IN  IF inked = {} THEN <<>>
        ELSE SubSeq(T, CHOOSE i \in inked : \A j \in inked : i <= j, SetMax(inked))

ListingVerdict(isListed) ==
    ps.kind = "ok" =>
        /\ container.raised = "none"
        /\ container.running <=> isListed
        /\ container.running =>
              container.logs = None /\ container.calls = <<"docker ps">>
        /\ ~container.running =>
              /\ container.calls = <<"docker ps", "docker logs">>
              /\ container.logs = Text(docker_logs.stdout \o docker_logs.stderr)

\* C10 as stated: after a successful listing the result is (True, None)
\* with no log fetch iff some line of the listing output is exactly the
\* container name; otherwise one log fetch and (False, stdout + stderr).
CE_C10 == ListingVerdict(IsLineOf(CONTAINER_NAME, ps.stdout))

\* C10 amended: the lines are those of the listing output after the leading
\* and trailing whitespace of the whole output has been removed.
Thm_C10 == ListingVerdict(IsLineOf(CONTAINER_NAME, Trimmed(ps.stdout)))

Wit_C10 ==
    /\ ps.kind = "ok" /\ ~container.running
    /\ Contains(ps.stdout, CONTAINER_NAME)
    /\ container.logs = Text(<<"l", "e">>)

====
